---- MODULE Spec2Model ----
(***************************************************************************)
(* Vehicle production tracker (src/flowprog-1.py).                         *)
(*                                                                         *)
(* The program is a Streamlit script: every interaction re-runs the whole  *)
(* script, which loads the table from the Google sheet (load_data), runs   *)
(* at most one button handler on the loaded DataFrame df, rewrites the     *)
(* sheet (save_data) and calls st.rerun().  The state that survives a run  *)
(* is the sheet and the session's logged_in flag; df lives inside a run.   *)
(*                                                                         *)
(* Spec runs the script of one session, one run at a time, against a sheet *)
(* whose writes succeed.  SpecWriteFailure lets the calls of save_data     *)
(* raise; SpecSessions lets the run of a second session be under way       *)
(* around the runs of the first; SpecNormalize applies the normalisation   *)
(* of the VIN field to typed texts.                                        *)
(*                                                                         *)
(* Strings the program inspects character by character (VINs, the bulk     *)
(* text area) are sequences of one-character strings.  Timestamps are      *)
(* values of a logical clock: datetime.now() of a run is `clock`, later    *)
(* than every timestamp written by an earlier run.  The columns "Model"    *)
(* and "Start Time" are written once by Add and never read; they are left  *)
(* out of the rows.                                                        *)
(***************************************************************************)
EXTENDS Integers, Sequences, FiniteSets, TLC

VARIABLES sheet, logged_in, clock, run, store, other

vars == <<sheet, logged_in, clock, run, store, other>>

(* ---- bounds of the model ---------------------------------------------- *)
NumLines == 3     \* how many of the 14 production lines the model keeps
MaxRows == 2      \* rows the table may hold
MaxClock == 3     \* runs that write a timestamp
MaxIdLen == 6     \* length of a text typed in the VIN field (SpecNormalize)

(* ---- constants of the program ----------------------------------------- *)
AllLines ==
  << "Body Shop", "Paint", "TRIM", "UB", "FINAL", "Odyssi", "Wheel Alignment",
     "ADAS", "PQG", "Tests Track", "CC4", "DVX", "Audit", "Delivery" >>

PRODUCTION_LINES == SubSeq(AllLines, 1, NumLines)

Lines == { PRODUCTION_LINES[i] : i \in 1..Len(PRODUCTION_LINES) }

users == [admin |-> "admin123"]

VinWidth == 5

Statuses == {"Completed", "In Progress", "Repair Needed"}

NoTime == 0       \* the "" of an unset <line>_time cell

None == "None"

(* ---- Python string operations (str.strip, str.upper, str.zfill) ------- *)
\* strip taking one blank off the front
LStrip_Once(s) == IF s # <<>> /\ Head(s) = " " THEN Tail(s) ELSE s

RECURSIVE LStrip(_)
LStrip(s) == IF s # <<>> /\ Head(s) = " " THEN LStrip(Tail(s)) ELSE s

RECURSIVE RStrip(_)
RStrip(s) ==
  IF s # <<>> /\ s[Len(s)] = " " THEN RStrip(SubSeq(s, 1, Len(s) - 1)) ELSE s

strip(s) == RStrip(LStrip(s))

UpperChar(c) ==
  CASE c = "a" -> "A"
    [] c = "e" -> "E"
    [] OTHER -> c

RECURSIVE upper(_)
upper(s) == IF s = <<>> THEN <<>> ELSE <<UpperChar(Head(s))>> \o upper(Tail(s))

RECURSIVE Zeros(_)
Zeros(n) == IF n <= 0 THEN <<>> ELSE <<"0">> \o Zeros(n - 1)

zfill(s, w) ==
  IF Len(s) >= w THEN s
  ELSE IF s # <<>> /\ Head(s) \in {"+", "-"}
       THEN <<Head(s)>> \o Zeros(w - Len(s)) \o Tail(s)
       ELSE Zeros(w - Len(s)) \o s

RECURSIVE split(_, _)
split(s, sep) ==
  IF \E i \in 1..Len(s) : s[i] = sep
  THEN LET i == CHOOSE k \in 1..Len(s) :
                  s[k] = sep /\ \A j \in 1..(k - 1) : s[j] # sep
       IN  <<SubSeq(s, 1, i - 1)>> \o split(SubSeq(s, i + 1, Len(s)), sep)
  ELSE <<s>>

(* ---- the round trip through the sheet ---------------------------------- *)
(* sheet.get_all_records() (gspread) numericises every cell: int(value),   *)
(* else float(value), else the string as it is.  pandas then builds the    *)
(* "VIN" column from the values and astype(str) renders them with str().   *)
(* The cells of the other columns (line names, statuses, ISO timestamps)   *)
(* are no numerals and come back as the strings save_data wrote.           *)
DigitChars == <<"0", "1", "2", "3", "4", "5", "6", "7", "8", "9">>

Digits == { DigitChars[i] : i \in 1..Len(DigitChars) }

DigitVal(c) == (CHOOSE i \in 1..Len(DigitChars) : DigitChars[i] = c) - 1

IsDigits(s) == s # <<>> /\ \A i \in 1..Len(s) : s[i] \in Digits

RECURSIVE ToNat(_)
ToNat(s) == IF s = <<>> THEN 0 ELSE 10 * ToNat(SubSeq(s, 1, Len(s) - 1)) + DigitVal(s[Len(s)])

RECURSIVE StripLeadingZeros(_)
StripLeadingZeros(s) ==
  IF Len(s) > 1 /\ Head(s) = "0" THEN StripLeadingZeros(Tail(s)) ELSE s

RECURSIVE StripTrailingZeros(_)
StripTrailingZeros(s) ==
  IF Len(s) > 1 /\ s[Len(s)] = "0"
  THEN StripTrailingZeros(SubSeq(s, 1, Len(s) - 1)) ELSE s

RECURSIVE TakeDigits(_)
TakeDigits(s) ==
  IF s # <<>> /\ Head(s) \in Digits THEN <<Head(s)>> \o TakeDigits(Tail(s)) ELSE <<>>

Drop(s, n) == SubSeq(s, n + 1, Len(s))

\* the exponent of a float literal whose mantissa has been read: nothing, or
\* "E" and digits (signs, "inf" and "nan" are outside the alphabet)
FloatTail(ip, fp, rest) ==
  [ ok |-> /\ ip \o fp # <<>>
           /\ rest # <<>> => Head(rest) = "E" /\ IsDigits(Tail(rest)),
    ip |-> ip, fp |-> fp,
    exp |-> IF rest = <<>> THEN <<>> ELSE Tail(rest) ]

FloatFrac(ip, rest) ==
  IF rest # <<>> /\ Head(rest) = "."
  THEN FloatTail(ip, TakeDigits(Tail(rest)), Drop(rest, 1 + Len(TakeDigits(Tail(rest)))))
  ELSE FloatTail(ip, <<>>, rest)

\* float(s) read as Python reads it: digits, at most one point, digits,
\* then an optional exponent
ParseFloat(s) == FloatFrac(TakeDigits(s), Drop(s, Len(TakeDigits(s))))

\* str(x) of the float in Python's fixed notation, which repr uses for
\* values in [1e-4, 1e16) and for 0; every value the modelled inputs
\* produce is one.
FixedNotation(d, p) ==
  LET ip == IF p >= Len(d) THEN d \o Zeros(p - Len(d)) ELSE SubSeq(d, 1, p)
      fp == IF p >= Len(d) THEN <<>> ELSE Drop(d, p)
  IN  StripLeadingZeros(IF ip = <<>> THEN <<"0">> ELSE ip) \o <<".">>
        \o StripTrailingZeros(IF fp = <<>> THEN <<"0">> ELSE fp)

StrFloat(f) == FixedNotation(f.ip \o f.fp, Len(f.ip) + ToNat(f.exp))

NumericiseFloat(value, f) ==
  IF f.ok THEN [t |-> "float", s |-> StrFloat(f)] ELSE [t |-> "str", s |-> value]

numericise(value) ==
  IF IsDigits(value) THEN [t |-> "int", s |-> StripLeadingZeros(value)]
  ELSE NumericiseFloat(value, ParseFloat(value))

\* pandas gives a column of ints and floats the dtype float64, so that the
\* ints are rendered as floats too; a column with a string in it is object.
IsFloat64(n) ==
  /\ \A i \in 1..Len(n) : n[i].t # "str"
  /\ \E i \in 1..Len(n) : n[i].t = "float"

\* astype(str) of the column
RECURSIVE AsType(_, _)
AsType(n, float64) ==
  IF n = <<>> THEN <<>>
  ELSE << IF float64 /\ Head(n).t = "int" THEN Head(n).s \o <<".", "0">> ELSE Head(n).s >>
         \o AsType(Tail(n), float64)

RenderColumn(n) == AsType(n, IsFloat64(n))

RECURSIVE NumericiseVins(_)
NumericiseVins(sh) ==
  IF sh = <<>> THEN <<>> ELSE <<numericise(Head(sh).VIN)>> \o NumericiseVins(Tail(sh))

VinColumn(sh) == RenderColumn(NumericiseVins(sh))

RECURSIVE WithVins(_, _)
WithVins(sh, col) ==
  IF sh = <<>> THEN <<>>
  ELSE <<[Head(sh) EXCEPT !.VIN = Head(col)]>> \o WithVins(Tail(sh), Tail(col))

load_data(sh) == WithVins(sh, VinColumn(sh))

\* df["VIN"] = df["VIN"].astype(str).str.zfill(5).str.upper()
RECURSIVE FormatVins(_)
FormatVins(df) ==
  IF df = <<>> THEN <<>>
  ELSE <<[Head(df) EXCEPT !.VIN = upper(zfill(Head(df).VIN, VinWidth))]>>
         \o FormatVins(Tail(df))

\* what sheet.clear() and sheet.update() of save_data do: both succeed, the
\* first raises, or the first succeeds and the second raises
StoreModes == {"up", "clear raises", "update raises"}

\* save_data writing the rows of df over the rows the sheet holds, without
\* sheet.clear(): rows below the last row of df stay
save_data_NoClear(df) == df \o SubSeq(sheet, Len(df) + 1, Len(sheet))

\* The sheet after save_data(df).  save_data writes str(x) of every cell: the
\* VIN strings as they are, each timestamp as its ISO string, which is read
\* back as that string.  An exception of sheet.clear() or sheet.update() is
\* caught and shown with st.error; the caller goes on.
save_data(df) ==
  CASE store = "up" -> df
    [] store = "clear raises" -> sheet
    [] store = "update raises" -> <<>>

ErrSave == "Failed to save data to Google Sheet"

\* the st.error of save_data
SaveErrors == IF store = "up" THEN {} ELSE {ErrSave}

VinsOf(df) == { df[i].VIN : i \in 1..Len(df) }

\* df[df["VIN"] == vin].index[0]
FirstIndex(df, vin) ==
  CHOOSE i \in 1..Len(df) : df[i].VIN = vin /\ \A j \in 1..(i - 1) : df[j].VIN # vin

\* get_next_line stepping over a line where two lines follow
get_next_line_Skip(current_line) ==
  LET current_index == CHOOSE i \in 1..Len(PRODUCTION_LINES) :
                          PRODUCTION_LINES[i] = current_line
  IN  IF current_line \notin Lines THEN None
      ELSE IF current_index + 2 <= Len(PRODUCTION_LINES)
           THEN PRODUCTION_LINES[current_index + 2]
           ELSE IF current_index + 1 <= Len(PRODUCTION_LINES)
                THEN PRODUCTION_LINES[current_index + 1]
                ELSE None

\* get_next_line indexing PRODUCTION_LINES with current_index, not current_index + 1
get_next_line_Same(current_line) ==
  LET current_index == CHOOSE i \in 1..Len(PRODUCTION_LINES) :
                          PRODUCTION_LINES[i] = current_line
  IN  IF current_line \notin Lines THEN None
      ELSE IF current_index + 1 <= Len(PRODUCTION_LINES)
           THEN PRODUCTION_LINES[current_index]
           ELSE None

get_next_line(current_line) ==
  LET current_index == CHOOSE i \in 1..Len(PRODUCTION_LINES) :
                          PRODUCTION_LINES[i] = current_line
  IN  IF current_line \notin Lines THEN None
      ELSE IF current_index + 1 <= Len(PRODUCTION_LINES)
           THEN PRODUCTION_LINES[current_index + 1]
           ELSE None

(* ---- inputs ------------------------------------------------------------ *)
\* what is typed in "VIN (exactly 5 characters)": "", " 0 ", "001e5" and
\* "000001"
RawVins ==
  { <<>>,
    <<" ", "0", " ">>,
    <<"0", "0", "1", "e", "5">>,
    <<"0", "0", "0", "0", "0", "1">> }

\* what is typed in "Enter VINs (separate by comma)": "", "0,0" and "0, 9"
BulkTexts ==
  { <<>>,
    <<"0", ",", "0">>,
    <<"0", ",", " ", "9">> }

\* what is typed in "Username" and "Password"
Credentials == { <<"admin", "admin123">>, <<"admin", "letmein">>, <<"guest", "admin123">> }

(* ---- messages ---------------------------------------------------------- *)
ErrLength == "VIN must be exactly 5 characters."

ErrExists == "This VIN already exists."

ErrFinal == "This vehicle has already reached the final line!"

ErrLogin == "Invalid username or password"

\* what a run of the script did: the button, the text typed for it, the id
\* (Add: new_vin_clean), the line and status selected, the sheet the run
\* started from, the DataFrame its section worked on, its datetime.now(),
\* the DataFrame the run ended with (mem), the st.error messages, whether
\* st.success was called and the number of vehicles it reported
Ran(op, df, text, vin, line, status, mem, errors, success, count) ==
  [ op |-> op, text |-> text, vin |-> vin, line |-> line, status |-> status,
    before |-> sheet, df |-> df, now |-> clock, mem |-> mem,
    errors |-> errors, success |-> success, count |-> count ]

\* A second session of the same process.  Its script runs in a thread of its
\* own, so that its run is under way, between two calls to the sheet, while
\* the first session runs: pc is where it is ("idle", or before the
\* sheet.clear() or the sheet.update() of save_data), df the DataFrame it is
\* about to write, before the sheet it loaded.
Idle(flag) == [ pc |-> "idle", logged_in |-> flag, df |-> <<>>, before |-> <<>> ]

(* ---- the script -------------------------------------------------------- *)
Init ==
  /\ sheet = <<>>
  /\ logged_in = FALSE
  /\ clock = 1
  /\ run = [ op |-> "start", text |-> <<>>, vin |-> <<>>, line |-> None, status |-> None,
             before |-> <<>>, df |-> <<>>, now |-> 1, mem |-> <<>>,
             errors |-> {}, success |-> FALSE, count |-> 0 ]
  /\ store = "up"
  /\ other = Idle(FALSE)

\* the DataFrame the sections below line 265 work on
LoadedDf == FormatVins(load_data(sheet))

\* the login taking any password of a configured user
Login_AnyPassword ==
  \E typed \in Credentials :
  LET username == typed[1]
  IN
  /\ IF username \in DOMAIN users
     THEN /\ logged_in' = TRUE
          /\ run' = Ran("login", <<>>, typed, <<>>, None, None, <<>>, {}, TRUE, 0)
     ELSE /\ logged_in' = logged_in
          /\ run' = Ran("login", <<>>, typed, <<>>, None, None, <<>>, {ErrLogin}, FALSE, 0)
  /\ UNCHANGED <<sheet, clock, store, other>>

Login ==
  \E typed \in Credentials :
  LET username == typed[1]
      password == typed[2]
  IN
  /\ IF username \in DOMAIN users /\ users[username] = password
     THEN /\ logged_in' = TRUE
          /\ run' = Ran("login", <<>>, typed, <<>>, None, None, <<>>, {}, TRUE, 0)
     ELSE /\ logged_in' = logged_in
          /\ run' = Ran("login", <<>>, typed, <<>>, None, None, <<>>, {ErrLogin}, FALSE, 0)
  /\ UNCHANGED <<sheet, clock, store, other>>

\* Add giving every line the cells of "Body Shop"
NewVehicle_EveryLineStarted(new_vin_clean, now) ==
  [ VIN |-> new_vin_clean,
    CurrentLine |-> "Body Shop",
    LastUpdated |-> now,
    status |-> [line \in Lines |-> "In Progress"],
    time |-> [line \in Lines |-> now] ]

NewVehicle(new_vin_clean, now) ==
  [ VIN |-> new_vin_clean,
    CurrentLine |-> "Body Shop",
    LastUpdated |-> now,
    status |-> [line \in Lines |-> IF line = "Body Shop" THEN "In Progress" ELSE ""],
    time |-> [line \in Lines |-> IF line = "Body Shop" THEN now ELSE NoTime] ]

\* lines 260 and 268: what is typed, as the id Add works with
NormalizeVin(raw) == upper(zfill(upper(strip(raw)), VinWidth))

\* lines 270-285: the DataFrame after Add, and the st.error where Add refuses
AddHandler(df, new_vin_clean, now) ==
  IF Len(new_vin_clean) # VinWidth THEN [df |-> df, errors |-> {ErrLength}]
  ELSE IF new_vin_clean \in VinsOf(df) THEN [df |-> df, errors |-> {ErrExists}]
  ELSE [df |-> Append(df, NewVehicle(new_vin_clean, now)), errors |-> {}]

AddVehicle ==
  \E df \in {LoadedDf}, raw \in RawVins :
  \E new_vin_clean \in {NormalizeVin(raw)} :
  \E added \in {AddHandler(df, new_vin_clean, clock)} :
      /\ logged_in
      /\ IF added.errors # {}
         THEN /\ run' = Ran("add", df, raw, new_vin_clean, None, None, df,
                            added.errors, FALSE, 0)
              /\ UNCHANGED <<sheet, clock>>
         ELSE /\ Len(df) < MaxRows
              /\ clock <= MaxClock
              /\ sheet' = save_data(added.df)
              /\ clock' = clock + 1
              /\ run' = Ran("add", df, raw, new_vin_clean, None, None, added.df,
                            SaveErrors, TRUE, 0)
      /\ UNCHANGED <<logged_in, store, other>>

\* the handler marking the selected line Completed where there is no next
\* line, in place of the st.error of line 311
UpdateRow_FinalCompleted(row, current_line, update_line, new_status, now) ==
  LET next_line == get_next_line(current_line)
      marked ==
        IF new_status = "Completed"
        THEN IF next_line # None
             THEN [row EXCEPT !.status[update_line] = new_status,
                              !.time[update_line] = now,
                              !.CurrentLine = next_line,
                              !.time[next_line] = now,
                              !.status[next_line] = "In Progress"]
             ELSE [row EXCEPT !.status[update_line] = new_status,
                              !.time[update_line] = now]
        ELSE [row EXCEPT !.status[update_line] = new_status,
                         !.time[update_line] = now]
  IN  [marked EXCEPT !.LastUpdated = now]

\* the handler without line 314: a status other than Completed leaves the
\* line's time as it was
UpdateRow_TimeNotSet(row, current_line, update_line, new_status, now) ==
  LET next_line == get_next_line(current_line)
      marked ==
        IF new_status = "Completed"
        THEN IF next_line # None
             THEN [row EXCEPT !.status[update_line] = new_status,
                              !.time[update_line] = now,
                              !.CurrentLine = next_line,
                              !.time[next_line] = now,
                              !.status[next_line] = "In Progress"]
             ELSE row
        ELSE [row EXCEPT !.status[update_line] = new_status]
  IN  [marked EXCEPT !.LastUpdated = now]

\* the handler with lines 303-304 moved below line 309: the selected line is
\* marked Completed after the next line was set In Progress
UpdateRow_MarkedLast(row, current_line, update_line, new_status, now) ==
  LET next_line == get_next_line(current_line)
      marked ==
        IF new_status = "Completed"
        THEN IF next_line # None
             THEN [row EXCEPT !.CurrentLine = next_line,
                              !.time[next_line] = now,
                              !.status[next_line] = "In Progress",
                              !.status[update_line] = new_status,
                              !.time[update_line] = now]
             ELSE row
        ELSE [row EXCEPT !.status[update_line] = new_status,
                         !.time[update_line] = now]
  IN  [marked EXCEPT !.LastUpdated = now]

\* lines 300-316 (Update Status) and 354-367 (bulk, where update_line is the
\* current line) on one row of df
UpdateRow(row, current_line, update_line, new_status, now) ==
  LET next_line == get_next_line(current_line)
      marked ==
        IF new_status = "Completed"
        THEN IF next_line # None
             THEN [row EXCEPT !.status[update_line] = new_status,
                              !.time[update_line] = now,
                              !.CurrentLine = next_line,
                              !.time[next_line] = now,
                              !.status[next_line] = "In Progress"]
             ELSE row
        ELSE [row EXCEPT !.status[update_line] = new_status,
                         !.time[update_line] = now]
  IN  [marked EXCEPT !.LastUpdated = now]

\* lines 293-316: the DataFrame after Update Status
UpdateHandler(df, update_vin, update_line, new_status, now) ==
  LET idx == FirstIndex(df, update_vin)
      current_line == df[idx].CurrentLine
  IN  [df EXCEPT ![idx] = UpdateRow(df[idx], current_line, update_line, new_status, now)]

UpdateStatus ==
  \E df \in {LoadedDf} :
  \E update_vin \in VinsOf(df), update_line \in Lines, new_status \in Statuses :
  \E updated \in {UpdateHandler(df, update_vin, update_line, new_status, clock)} :
  LET current_line == df[FirstIndex(df, update_vin)].CurrentLine
      final == new_status = "Completed" /\ get_next_line(current_line) = None
  IN  /\ logged_in
      /\ df # <<>>
      /\ update_vin \in VinsOf(df)
      /\ clock <= MaxClock
      /\ sheet' = save_data(updated)
      /\ clock' = clock + 1
      /\ run' = Ran("update", df, <<>>, update_vin, update_line, new_status, updated,
                    (IF final THEN {ErrFinal} ELSE {}) \cup SaveErrors, TRUE, 0)
      /\ UNCHANGED <<logged_in, store, other>>

\* df[df["VIN"] != vin_to_delete]
RECURSIVE Without(_, _)
Without(df, vin) ==
  IF df = <<>> THEN <<>>
  ELSE (IF Head(df).VIN # vin THEN <<Head(df)>> ELSE <<>>) \o Without(Tail(df), vin)

DeleteVehicle ==
  \E df \in {LoadedDf} :
  \E vin_to_delete \in VinsOf(df) :
  /\ logged_in
  /\ vin_to_delete \in VinsOf(df)
  /\ sheet' = save_data(Without(df, vin_to_delete))
  /\ run' = Ran("delete", df, <<>>, vin_to_delete, None, None, Without(df, vin_to_delete),
                SaveErrors, TRUE, 0)
  /\ UNCHANGED <<logged_in, clock, store, other>>

\* the loop of lines 350-367
RECURSIVE BulkRows(_, _, _, _)
BulkRows(df, vins, bulk_new_status, now) ==
  IF vins = <<>> THEN df
  ELSE LET vin == Head(vins)
           idx == FirstIndex(df, vin)
           current_line == df[idx].CurrentLine
       IN  IF vin \in VinsOf(df)
           THEN BulkRows([df EXCEPT ![idx] = UpdateRow(df[idx], current_line,
                                                current_line, bulk_new_status, now)],
                         Tail(vins), bulk_new_status, now)
           ELSE BulkRows(df, Tail(vins), bulk_new_status, now)

RECURSIVE StripZfill(_)
StripZfill(parts) ==
  IF parts = <<>> THEN <<>>
  ELSE <<zfill(strip(Head(parts)), VinWidth)>> \o StripZfill(Tail(parts))

\* [vin.strip().zfill(5) for vin in bulk_update_vin.split(",")]
BulkVins(text) == StripZfill(split(upper(strip(text)), ","))

BulkUpdate ==
  \E df \in {LoadedDf}, text \in BulkTexts, bulk_new_status \in Statuses :
  \E vins \in {BulkVins(text)} :
  \E updated \in {BulkRows(df, vins, bulk_new_status, clock)} :
  LET bulk_update_vin == upper(strip(text))
      stamped == \E i \in 1..Len(vins) : vins[i] \in VinsOf(df)
  IN  /\ logged_in
      /\ IF bulk_update_vin # <<>>
         THEN /\ stamped => clock <= MaxClock
              /\ sheet' = save_data(updated)
              /\ clock' = IF stamped THEN clock + 1 ELSE clock
              /\ run' = Ran("bulk", df, text, <<>>, None, bulk_new_status, updated,
                            SaveErrors, TRUE, Len(vins))
         ELSE /\ run' = Ran("bulk", df, text, <<>>, None, bulk_new_status, df,
                            {}, FALSE, 0)
              /\ UNCHANGED <<sheet, clock>>
      /\ UNCHANGED <<logged_in, store, other>>

(* ---- the calls of save_data raising ------------------------------------ *)
\* the sheet's service starts or stops refusing sheet.clear() or sheet.update()
StoreChanges ==
  /\ \E mode \in StoreModes \ {store} : store' = mode
  /\ UNCHANGED <<sheet, logged_in, clock, run, other>>

(* ---- the run of the second session ------------------------------------- *)
OtherLogin ==
  \E typed \in Credentials :
  /\ other.pc = "idle"
  /\ typed[1] \in DOMAIN users /\ users[typed[1]] = typed[2]
  /\ other' = [other EXCEPT !.logged_in = TRUE]
  /\ UNCHANGED <<sheet, logged_in, clock, run, store>>

\* the script up to the call of save_data, Delete Vehicle being the button
\* pressed: load_data, line 265 and lines 328-332
OtherRuns ==
  \E df \in {LoadedDf} :
  \E vin_to_delete \in VinsOf(df) :
  /\ other.pc = "idle"
  /\ other.logged_in
  /\ other' = [other EXCEPT !.pc = "clear", !.before = sheet,
                            !.df = Without(df, vin_to_delete)]
  /\ UNCHANGED <<sheet, logged_in, clock, run, store>>

\* sheet.clear()
OtherClears ==
  /\ other.pc = "clear"
  /\ sheet' = <<>>
  /\ other' = [other EXCEPT !.pc = "update", !.before = <<>>]
  /\ UNCHANGED <<logged_in, clock, run, store>>

\* sheet.update(...), st.success and st.rerun()
OtherUpdates ==
  /\ other.pc = "update"
  /\ sheet' = other.df
  /\ other' = [other EXCEPT !.pc = "idle", !.df = <<>>]
  /\ UNCHANGED <<logged_in, clock, run, store>>

\* One run of the script: load_data and line 265 give df, then the section of
\* the button that was pressed runs on it.
Next ==
  \/ Login
  \/ AddVehicle
  \/ UpdateStatus
  \/ DeleteVehicle
  \/ BulkUpdate

Spec == Init /\ [][Next]_vars

\* the same runs, with sheet.clear() and sheet.update() raising now and then
NextWriteFailure == Next \/ StoreChanges

SpecWriteFailure == Init /\ [][NextWriteFailure]_vars

\* the same runs, with the run of a second session under way around them
NextSessions == Next \/ OtherLogin \/ OtherRuns \/ OtherClears \/ OtherUpdates

SpecSessions == Init /\ [][NextSessions]_vars

(* ---- the normalisation of the VIN field, on its own --------------------- *)
IdChars == {" ", "0", "a", "-"}

\* what may be typed in "VIN (exactly 5 characters)"
TypedTexts == UNION { [1..n -> IdChars] : n \in 0..MaxIdLen }

InitNormalize ==
  /\ sheet = <<>>
  /\ logged_in = TRUE
  /\ clock = 1
  /\ store = "up"
  /\ other = Idle(FALSE)
  /\ \E raw \in TypedTexts :
       run = [ op |-> "typed", text |-> raw, vin |-> <<>>, line |-> None, status |-> None,
               before |-> <<>>, df |-> <<>>, now |-> 1, mem |-> <<>>,
               errors |-> {}, success |-> FALSE, count |-> 0 ]

\* lines 260-270 on the text typed
NormalizeTyped ==
  /\ run.op = "typed"
  /\ run' = [run EXCEPT !.op = "normalized",
                        !.vin = NormalizeVin(run.text),
                        !.errors = IF Len(NormalizeVin(run.text)) # VinWidth
                                   THEN {ErrLength} ELSE {}]
  /\ UNCHANGED <<sheet, logged_in, clock, store, other>>

\* lines 260-270 on an id they let pass, typed as it is stored
NormalizeAgain ==
  /\ run.op = "normalized"
  /\ run.errors = {}
  /\ run' = [run EXCEPT !.op = "normalized again",
                        !.text = run.vin,
                        !.vin = NormalizeVin(run.vin)]
  /\ UNCHANGED <<sheet, logged_in, clock, store, other>>

NextNormalize == NormalizeTyped \/ NormalizeAgain

SpecNormalize == InitNormalize /\ [][NextNormalize]_vars

(* ---- vocabulary of the properties -------------------------------------- *)
\* the DataFrame the last run worked on
BeforeDf == run.df

Pos(line) == CHOOSE i \in 1..Len(PRODUCTION_LINES) : PRODUCTION_LINES[i] = line

FirstLine == PRODUCTION_LINES[1]

LastLine == PRODUCTION_LINES[Len(PRODUCTION_LINES)]

Successor(line) == PRODUCTION_LINES[Pos(line) + 1]

\* the row a run with this id addresses
Addressed(vin) == FirstIndex(BeforeDf, vin)

\* how often the bulk list of the last run names the id
Occurrences(vin) ==
  Cardinality({ i \in 1..Len(BulkVins(run.text)) : BulkVins(run.text)[i] = vin })

\* the last run was Update Status on the record's current line
UpdatedCurrent(new_status) ==
  /\ run.op = "update"
  /\ run.status = new_status
  /\ run.line = BeforeDf[Addressed(run.vin)].CurrentLine

\* the last run was a bulk update that listed this id of the table
BulkListed(vin, new_status) ==
  /\ run.op = "bulk"
  /\ run.success
  /\ run.status = new_status
  /\ vin \in VinsOf(BeforeDf)
  /\ Occurrences(vin) >= 1

\* row i went from line s to its successor, s Completed, the successor In Progress
Advanced(i, s) ==
  /\ sheet[i].status[s] = "Completed"
  /\ sheet[i].CurrentLine = Successor(s)
  /\ sheet[i].status[Successor(s)] = "In Progress"

(* ---- C1 ----------------------------------------------------------------- *)
\* C1 as stated: Completed on the current, non-last line s, by Update Status
\* or by any bulk update listing the id, leaves s Completed and the record
\* on the successor of s, In Progress.
C1_AsStated ==
  /\ UpdatedCurrent("Completed") /\ run.line # LastLine
       => Advanced(Addressed(run.vin), run.line)
  /\ \A vin \in VinsOf(BeforeDf) :
       BulkListed(vin, "Completed") /\ BeforeDf[Addressed(vin)].CurrentLine # LastLine
         => Advanced(Addressed(vin), BeforeDf[Addressed(vin)].CurrentLine)

\* C1 amended: the same, for Update Status and for a bulk update whose list
\* names the id exactly once.
C1_AdvanceOnCompleted ==
  /\ UpdatedCurrent("Completed") /\ run.line # LastLine
       => Advanced(Addressed(run.vin), run.line)
  /\ \A vin \in VinsOf(BeforeDf) :
       /\ BulkListed(vin, "Completed")
       /\ Occurrences(vin) = 1
       /\ BeforeDf[Addressed(vin)].CurrentLine # LastLine
       => Advanced(Addressed(vin), BeforeDf[Addressed(vin)].CurrentLine)

C1_Witness == UpdatedCurrent("Completed") /\ run.line = PRODUCTION_LINES[2]

(* ---- C2 ----------------------------------------------------------------- *)
AllCompleted(row) == \A line \in Lines : row.status[line] = "Completed"

EarlierCompleted(row) ==
  \A line \in Lines : Pos(line) < Pos(row.CurrentLine) => row.status[line] = "Completed"

\* C2: Completed on the last line, for a record that is on the last line with
\* every earlier line Completed, leaves every line Completed and the record
\* on the last line.
C2_AsStated ==
  /\ UpdatedCurrent("Completed")
       /\ run.line = LastLine
       /\ EarlierCompleted(BeforeDf[Addressed(run.vin)])
       => /\ AllCompleted(sheet[Addressed(run.vin)])
          /\ sheet[Addressed(run.vin)].CurrentLine = LastLine
  /\ \A vin \in VinsOf(BeforeDf) :
       /\ BulkListed(vin, "Completed")
       /\ BeforeDf[Addressed(vin)].CurrentLine = LastLine
       /\ EarlierCompleted(BeforeDf[Addressed(vin)])
       => /\ AllCompleted(sheet[Addressed(vin)])
          /\ sheet[Addressed(vin)].CurrentLine = LastLine

(* ---- C3 ----------------------------------------------------------------- *)
\* the cells of a row the transition rules are about
Progress(row) == <<row.CurrentLine, row.LastUpdated, row.status, row.time>>

\* C3: Update Status to In Progress on a line before the record's current
\* line reports an error and leaves the record as it was.
C3_AsStated ==
  /\ run.op = "update"
  /\ run.status = "In Progress"
  /\ Pos(run.line) < Pos(BeforeDf[Addressed(run.vin)].CurrentLine)
  => /\ run.errors # {}
     /\ ~run.success
     /\ Progress(sheet[Addressed(run.vin)]) = Progress(run.before[Addressed(run.vin)])

(* ---- C4 ----------------------------------------------------------------- *)
Added == run.op = "add" /\ run.success

\* C4: right after a successful Add the new record is on the first line,
\* which is In Progress with its time set; every other line has neither a
\* status nor a time.
C4_AddedOnFirstLine ==
  Added =>
    LET row == sheet[Len(sheet)]
    IN  /\ row.VIN = run.vin
        /\ row.CurrentLine = FirstLine
        /\ row.status[FirstLine] = "In Progress"
        /\ row.time[FirstLine] # NoTime
        /\ \A line \in Lines \ {FirstLine} :
             row.status[line] = "" /\ row.time[line] = NoTime

C4_Witness == Added /\ Len(sheet) = 2

(* ---- C5 ----------------------------------------------------------------- *)
UniqueVins(df) == \A i, j \in 1..Len(df) : i # j => df[i].VIN # df[j].VIN

\* C5: no two records of the table the program works on share an id, and an
\* Add of an id the table holds is rejected and leaves the sheet as it was.
C5_AsStated ==
  /\ UniqueVins(LoadedDf)
  /\ run.op = "add" /\ run.vin \in VinsOf(BeforeDf)
       => /\ ErrExists \in run.errors
          /\ ~run.success
          /\ sheet = run.before

(* ---- C6 ----------------------------------------------------------------- *)
Letters ==
  { "A", "B", "C", "D", "E", "F", "G", "H", "I", "J", "K", "L", "M",
    "N", "O", "P", "Q", "R", "S", "T", "U", "V", "W", "X", "Y", "Z" }

\* the identifier format of the specification: exactly VinWidth characters,
\* all of them alphanumeric
ValidId(s) == Len(s) = VinWidth /\ \A i \in 1..Len(s) : s[i] \in Digits \cup Letters

\* C6: Add rejects every text whose stripped, uppercased form is not a valid
\* identifier, the empty text among them, and creates no record for it.
C6_AsStated ==
  run.op = "add" /\ ~ValidId(upper(strip(run.text)))
    => /\ run.errors # {}
       /\ ~run.success
       /\ sheet = run.before

(* ---- C7 ----------------------------------------------------------------- *)
\* the last run was a bulk update of a non-empty list
BulkRan == run.op = "bulk" /\ upper(strip(run.text)) # <<>>

Listed == { BulkVins(run.text)[i] : i \in 1..Len(BulkVins(run.text)) }

\* C7: a bulk update of a list that names ids of the table and ids that are
\* not in it gives an outcome for every listed id: an id of the table has its
\* record updated, an id that is not in the table is reported as an error
\* and is not counted among the updated vehicles.
C7_AsStated ==
  BulkRan /\ Listed \cap VinsOf(BeforeDf) # {} =>
    /\ \A vin \in Listed \cap VinsOf(BeforeDf) :
         sheet[Addressed(vin)].LastUpdated = run.now
    /\ Listed \ VinsOf(BeforeDf) # {}
         => /\ run.errors # {}
            /\ run.count <= Cardinality(Listed \cap VinsOf(BeforeDf))

(* ---- C8 ----------------------------------------------------------------- *)
\* row i differs from what the run loaded only in the status and the time
\* of the line and in Last Updated, both times being the run's now
Touched(i, line, new_status) ==
  /\ sheet[i].CurrentLine = BeforeDf[i].CurrentLine
  /\ sheet[i].status = [BeforeDf[i].status EXCEPT ![line] = new_status]
  /\ sheet[i].time = [BeforeDf[i].time EXCEPT ![line] = run.now]
  /\ sheet[i].LastUpdated = run.now

\* C8: In Progress or Repair Needed on the record's current line, by Update
\* Status or by a bulk update, changes the status and the time of that line
\* and Last Updated, and nothing else of the record's progress.
C8_StatusOnlyOnCurrent ==
  \A new_status \in {"In Progress", "Repair Needed"} :
    /\ UpdatedCurrent(new_status) => Touched(Addressed(run.vin), run.line, new_status)
    /\ \A vin \in VinsOf(BeforeDf) :
         BulkListed(vin, new_status)
           => Touched(Addressed(vin), BeforeDf[Addressed(vin)].CurrentLine, new_status)

C8_Witness ==
  /\ UpdatedCurrent("Repair Needed")
  /\ run.line = PRODUCTION_LINES[2]
  /\ BeforeDf[Addressed(run.vin)].time[run.line] # run.now

(* ---- C9 ----------------------------------------------------------------- *)
\* C9: the current line of every record is In Progress or Repair Needed,
\* unless every line of the record is Completed.
C9_CurrentLineIsActive ==
  \A i \in 1..Len(sheet) :
    \/ sheet[i].status[sheet[i].CurrentLine] \in {"In Progress", "Repair Needed"}
    \/ AllCompleted(sheet[i])

\* Completed was selected for the line after the current one
C9_Witness ==
  /\ run.op = "update"
  /\ run.status = "Completed"
  /\ BeforeDf[Addressed(run.vin)].CurrentLine # LastLine
  /\ run.line = Successor(BeforeDf[Addressed(run.vin)].CurrentLine)

(* ---- C10 ---------------------------------------------------------------- *)
\* C10: an update that reports an error leaves the sheet as it was and
\* reports no success.
C10_AsStated ==
  run.op \in {"update", "bulk"} /\ run.errors # {}
    => /\ sheet = run.before
       /\ ~run.success

(* ---- C11 ---------------------------------------------------------------- *)
\* C11: no rewrite loses an update.  The table a session rewrites is the
\* table it loaded: when the second session clears the sheet to write its
\* DataFrame, the sheet still holds what that session loaded, so that no
\* mutation another session saved in between is overwritten.
C11_AsStated ==
  [][other.pc = "clear" /\ other'.pc = "update" => sheet = other.before]_vars

(* ---- C12 ---------------------------------------------------------------- *)
\* C12: a run whose save_data failed reports no success and leaves the
\* sheet as it was before the run.
C12_AsStated ==
  ErrSave \in run.errors
    => /\ ~run.success
       /\ sheet = run.before

(* ---- C13 ---------------------------------------------------------------- *)
\* the last run was an add, update, bulk update or delete that reported success
Mutated == run.op \in {"add", "update", "bulk", "delete"} /\ run.success

\* C13: after every successful add, update, bulk update and delete the sheet
\* holds exactly the rows of the DataFrame the run ended with, one row per
\* record and nothing besides.
C13_FullRewrite ==
  Mutated => /\ Len(sheet) = Len(run.mem)
             /\ \A i \in 1..Len(run.mem) : sheet[i] = run.mem[i]

\* a delete took one of two rows away
C13_Witness ==
  /\ run.op = "delete"
  /\ run.success
  /\ Len(run.before) = 2
  /\ Len(run.mem) = 1

(* ---- C14 ---------------------------------------------------------------- *)
\* a letter and its capital
Capitals == { <<"a", "A">>, <<"e", "E">> }

\* the text has the fixed length and only letters and digits
AlnumId(s) ==
  /\ Len(s) = VinWidth
  /\ \A i \in 1..Len(s) : s[i] \in Digits \cup Letters \cup { c[1] : c \in Capitals }

\* t is s with letters capitalised and nothing else changed
OnlyCaseChanged(s, t) ==
  /\ Len(t) = Len(s)
  /\ \A i \in 1..Len(s) :
       IF \E c \in Capitals : c[1] = s[i]
       THEN <<s[i], t[i]>> \in Capitals
       ELSE t[i] = s[i]

\* C14: normalising an id that Add let pass gives that id again, and
\* normalising a text of the fixed length made of letters and digits changes
\* nothing but the case of its letters.
C14_Idempotent ==
  /\ run.op = "normalized again" => run.vin = run.text
  /\ run.op = "normalized" /\ AlnumId(run.text) => OnlyCaseChanged(run.text, run.vin)

\* an id that was padded and capitalised, normalised again
C14_Witness ==
  /\ run.op = "normalized again"
  /\ run.text = <<"0", "0", "0", "0", "A">>

(* ---- C15 ---------------------------------------------------------------- *)
\* C15: Update Status moves a record off its current line only when the
\* status is Completed and the selected line is the current line; Completed
\* on another line leaves the current line where it was and sets no line
\* other than the selected one to In Progress.
C15_AsStated ==
  run.op = "update" =>
    LET i == Addressed(run.vin)
        current == BeforeDf[i].CurrentLine
    IN  /\ sheet[i].CurrentLine # current
             => run.status = "Completed" /\ run.line = current
        /\ run.status = "Completed" /\ run.line # current
             => /\ sheet[i].CurrentLine = current
                /\ \A line \in Lines \ {run.line} :
                     sheet[i].status[line] = "In Progress"
                       => BeforeDf[i].status[line] = "In Progress"

(* ---- C16 ---------------------------------------------------------------- *)
\* C16: for every record, every line before its current line is Completed
\* and every line after it has neither a status nor a time.
C16_AsStated ==
  \A i \in 1..Len(sheet) :
    \A line \in Lines :
      /\ Pos(line) < Pos(sheet[i].CurrentLine) => sheet[i].status[line] = "Completed"
      /\ Pos(line) > Pos(sheet[i].CurrentLine)
           => sheet[i].status[line] = "" /\ sheet[i].time[line] = NoTime

(* ---- C17 ---------------------------------------------------------------- *)
\* how many update steps the last run applied to row i of the table it loaded
Steps(i) ==
  CASE run.op = "update" -> IF i = Addressed(run.vin) THEN 1 ELSE 0
    [] run.op = "bulk" /\ run.success ->
         IF i = Addressed(BeforeDf[i].VIN) THEN Occurrences(BeforeDf[i].VIN) ELSE 0
    [] OTHER -> 0

\* C17: an add, update or bulk update leaves every record on a line of the
\* sequence, and at most as many lines after the line it was on as update
\* steps were applied to it: one for Update Status, one per occurrence of
\* the id in a bulk list, none for the other records.
C17_StepToSuccessor ==
  run.op \in {"add", "update", "bulk"} =>
    /\ \A i \in 1..Len(sheet) : sheet[i].CurrentLine \in Lines
    /\ \A i \in 1..Len(BeforeDf) :
         Pos(sheet[i].CurrentLine) - Pos(BeforeDf[i].CurrentLine) \in 0..Steps(i)

\* a bulk list naming an id twice took its record two lines on
C17_Witness ==
  /\ run.op = "bulk"
  /\ \E i \in 1..Len(BeforeDf) :
       /\ Steps(i) = 2
       /\ Pos(sheet[i].CurrentLine) = Pos(BeforeDf[i].CurrentLine) + 2

(* ---- C18 ---------------------------------------------------------------- *)
\* C18: no record ever has every line Completed.
C18_NeverFullyCompleted ==
  \A i \in 1..Len(sheet) : \E line \in Lines : sheet[i].status[line] # "Completed"

\* Completed was selected for the last line of a record that is on it with
\* every earlier line Completed
C18_Witness ==
  /\ UpdatedCurrent("Completed")
  /\ run.line = LastLine
  /\ EarlierCompleted(BeforeDf[Addressed(run.vin)])
  /\ ErrFinal \in run.errors

(* ---- C19 ---------------------------------------------------------------- *)
\* the rows of the sheet before the run whose id, as the run loaded it, is
\* not the id selected, in their order
RECURSIVE KeptRows(_, _, _)
KeptRows(rows, df, vin) ==
  IF rows = <<>> THEN <<>>
  ELSE (IF Head(df).VIN # vin THEN <<Head(rows)>> ELSE <<>>)
         \o KeptRows(Tail(rows), Tail(df), vin)

\* C19: a run changes no row of the sheet but those it addresses.  Update
\* Status leaves every row but the selected record's as it was, a bulk
\* update every row whose id is not listed, an Add every row there was; a
\* delete leaves the rows with another id, as they were and in their order.
C19_AsStated ==
  /\ run.op = "update"
       => \A i \in 1..Len(run.before) :
            i # Addressed(run.vin) => sheet[i] = run.before[i]
  /\ BulkRan
       => \A i \in 1..Len(run.before) :
            BeforeDf[i].VIN \notin Listed => sheet[i] = run.before[i]
  /\ Added
       => \A i \in 1..Len(run.before) : sheet[i] = run.before[i]
  /\ run.op = "delete"
       => sheet = KeptRows(run.before, BeforeDf, run.vin)

\* C19 for the handlers alone: the same, the rows compared with the rows of
\* the DataFrame the run loaded (load_data and line 265 applied)
C19_OfLoaded ==
  /\ run.op = "update"
       => \A i \in 1..Len(BeforeDf) :
            i # Addressed(run.vin) => sheet[i] = BeforeDf[i]
  /\ BulkRan
       => \A i \in 1..Len(BeforeDf) :
            BeforeDf[i].VIN \notin Listed => sheet[i] = BeforeDf[i]
  /\ Added
       => \A i \in 1..Len(BeforeDf) : sheet[i] = BeforeDf[i]
  /\ run.op = "delete"
       => sheet = KeptRows(BeforeDf, BeforeDf, run.vin)

(* ---- C20 ---------------------------------------------------------------- *)
\* the pair typed is a configured user and its password
Matches(typed) == typed[1] \in DOMAIN users /\ users[typed[1]] = typed[2]

\* C20: logged_in is false at the start and becomes true only by a login
\* with a matching pair; the sheet changes, and an add, update, bulk update
\* or delete runs, only while logged_in is true.
C20_LoginGates ==
  /\ ~logged_in
  /\ [][ /\ logged_in' /\ ~logged_in => run'.op = "login" /\ Matches(run'.text)
         /\ sheet' # sheet => logged_in
         /\ run' # run /\ run'.op \in {"add", "update", "bulk", "delete"} => logged_in
       ]_vars

\* a login with a pair that does not match left the session logged out
C20_Witness ==
  /\ run.op = "login"
  /\ ~Matches(run.text)
  /\ ~logged_in

====
